---- MODULE Spec2Model ----
(***************************************************************************)
(* Voicer: voice-activity segmentation (record_with_vad), the playback     *)
(* barrier (is_playing_lock / speak_and_block), the conversation history   *)
(* (append_history) and the turn loop (listen_loop, AppCore.get_response), *)
(* the playback path down to the output device (tts_api.speak_text,        *)
(* AppCore.speak), AppCore.handle_audio_bytes, and record_with_vad of      *)
(* detect_voice_debug.py.                                                  *)
(***************************************************************************)
EXTENDS Integers, Sequences, FiniteSets, TLC

\* ------------------------------------------------------------------ constants
\* detect_voice.py:26-31  RATE * FRAME_DURATION_MS / 1000 * 2
RATE == 16000
FRAME_DURATION_MS == 30
FRAME_SIZE == (RATE * FRAME_DURATION_MS) \div 1000
BYTES_PER_FRAME == FRAME_SIZE * 2
\* detect_voice.py:63  collections.deque(maxlen=10)
RING_MAXLEN == 10
\* detect_voice.py:95,104  the factor 0.6, as the ratio RATIO_NUM / RATIO_DEN
RATIO_NUM == 6
RATIO_DEN == 10
\* detect_voice.py:40, app_core.py:14
HISTORY_KEEP == 6
\* detect_voice.py:151
max_consecutive_errors == 3
\* detect_voice.py:162  recognize_google returned the empty string
EmptyText == 0
\* deepseek_api.py:15
DS_HISTORY_KEEP == 6
\* deepseek_api.py:18-35, 85  the system prompt of the language
SystemPrompt == -2
\* deepseek_api.py:147  str(data), the reply made of a body without choices[0].message.content
MalformedReply == -3
\* app_core.py:42,48  transcribe_bytes returned None
NoneText == -1

\* ------------------------------------------------------------------ bounds
\* frames that may reach the segmenter in one capture with free input
MaxFrames == 14
\* frames that may reach the segmenter in one capture made by the turn loop
LoopFrames == 7
\* iterations of the turn loop
MaxTurns == 5
\* calls of append_history with free arguments
MaxAppends == 8
\* a device read that returns fewer bytes than asked for
ShortLen == 0
\* frames that may reach the segmenter in one capture whose exit paths are followed
ShortFrames == 8
\* frames counted as dropped by a capture that has seen the lock held throughout
MaxDrops == 2
\* chunks of 1024 frames in the audio that _play_wav_bytes writes
MaxChunks == 3
\* calls of AppCore.handle_audio_bytes
MaxCalls == 3
\* the largest history bound K with which the two append_history are compared
MaxKeep == 3

VARIABLES
    \* record_with_vad (detect_voice.py:47-120)
    cpc,            \* position of the capture thread inside record_with_vad
    pa,             \* the PyAudio instance of the call: "none" | "live" | "terminated"
    stream,         \* the input stream: "none" | "open" | "closed"
    ring_buffer,    \* deque(maxlen=10) of [f |-> frame, v |-> is_speech]
    triggered,
    speech_frames,  \* list of frames
    frame,          \* the frame of the current iteration
    fed,            \* number of frames handed to the segmenter so far
    result,         \* what record_with_vad returned
    exit_by,        \* how the while loop was left: "none" | "deadline" | "break" |
                    \* "open_failed" | "raised" | "interrupt"
    script,         \* what the microphone hears: "any" | "scenario" | "loop" | "short"
    heard,          \* history: is_speech of every frame handed to the segmenter, in order
    sil_mark,       \* history: len(speech_frames) when the last voiced frame had been taken
    \* is_playing_lock and the playback path (detect_voice.py:44, 130-139)
    lock,           \* "free" | "playback"
    ppc,            \* position of the playback path inside speak_and_block
    \* listen_loop (detect_voice.py:142-226)
    lpc,            \* position of the turn loop
    consecutive_errors,
    conversation_history,   \* detect_voice.conversation_history: list of [role, content]
    text,           \* what recognize_google returned in this turn
    response,       \* what get_deepseek_response returned in this turn
    tts_available,  \* TTS_AVAILABLE
    turns,          \* history: iterations of the while True loop started
    chat_calls,     \* history: calls of get_deepseek_response
    chat_failed,    \* history: calls of get_deepseek_response that raised
    all_heard_ok,   \* history: every capture so far returned audio and every
                    \* transcription so far returned a text
    \* AppCore (app_core.py:13-69)
    core_history,   \* AppCore.conversation_history
    core_keep,      \* AppCore.history_keep
    appended,       \* history: every entry passed to detect_voice.append_history, in order
    core_appended,  \* history: every entry passed to AppCore.append_history, in order
    \* which code runs
    variant,        \* record_with_vad of "main" (detect_voice.py) | "debug" (detect_voice_debug.py)
    caller,         \* who calls speak_text: "speak_and_block" | "AppCore.speak"
    \* observers of record_with_vad
    vad_called,     \* history: vad.is_speech was called on the frame held in `frame`
    held_all,       \* history: is_playing_lock has been held ever since the call began
    held_drops,     \* history: frames read and dropped (lines 72-77) while held_all
    \* tts_api.speak_text and _play_wav_bytes (tts_api.py:56-92, 118-218)
    spc,            \* position inside speak_text; "atomic": the call is taken as one step
    out_stream,     \* the output stream of _play_wav_bytes: "none" | "open" | "closed"
    writes,         \* stream.write calls made by the current _play_wav_bytes
    spk_ret,        \* what speak_text returned: "none" | "True" | "False" | "raised"
    play_lock,      \* AppCore._play_lock (app_core.py:21)
    \* AppCore.handle_audio_bytes (app_core.py:89-122)
    hpc,            \* position inside handle_audio_bytes: "off" when AppCore is not running
    calls,          \* history: calls of handle_audio_bytes
    return_audio,   \* the argument return_audio
    core_text,      \* what transcribe_bytes returned
    core_result,    \* the dictionary result: [text, response, audio_bytes]
    tts_calls,      \* history: calls of AppCore.get_tts_bytes
    \* listen_loop's console
    notice,         \* the message the current turn printed about the transcription
    \* user interrupt and the chat request (deepseek_api.py:82-135)
    interrupted,    \* history: listen_loop's except KeyboardInterrupt clause has run
    request,        \* history: the messages of the last request sent to the chat service
    \* speak_text's speed change (tts_api.py:173-214)
    speed,          \* the argument speed: "1.0" | "1.5"
    tempo,          \* how the speed change went: "none" | "ok" | "failed" | "skipped" | "raised"
    wav_bytes       \* speak_text's local wav_bytes: "none" | "original" | "tempo" | "stdout"

capvars == <<cpc, pa, stream, ring_buffer, triggered, speech_frames, frame, fed,
             result, exit_by, script, heard, sil_mark>>
pbvars == <<lock, ppc>>
loopvars == <<lpc, consecutive_errors, conversation_history, text, response,
              tts_available, turns, chat_calls, chat_failed, all_heard_ok, appended>>
corevars == <<core_history, core_keep, core_appended>>
cfgvars == <<variant, caller>>
obsvars == <<vad_called, held_all, held_drops>>
spkvars == <<spc, out_stream, writes, spk_ret, play_lock>>
habvars == <<hpc, calls, return_audio, core_text, core_result, tts_calls>>
extvars == <<interrupted, request>>
ttsvars == <<speed, tempo, wav_bytes>>
\* everything in auxvars but the chat request
auxrest == <<cfgvars, obsvars, spkvars, habvars, notice, interrupted, ttsvars>>
auxvars == <<auxrest, request>>
vars == <<capvars, pbvars, loopvars, corevars, auxvars>>

\* ------------------------------------------------------------------ helpers
NoFrame == [id |-> 0, len |-> 0, voiced |-> FALSE]
Pending == [kind |-> "pending", ids |-> <<>>, nbytes |-> 0]
None == [kind |-> "none", ids |-> <<>>, nbytes |-> 0]
\* the call ended by an exception leaving it: how is "raised" or "interrupt"
Raised(how) == [kind |-> how, ids |-> <<>>, nbytes |-> 0]

\* the spec's scenario: 10 silent frames, 10 voiced frames, 10 silent frames
ScenarioLen == 3 * RING_MAXLEN
ScenarioVoiced(i) == i > RING_MAXLEN /\ i <= 2 * RING_MAXLEN

Budget ==
    CASE script = "scenario" -> ScenarioLen
      [] script = "loop" -> LoopFrames
      [] script = "short" -> ShortFrames
      [] OTHER -> MaxFrames

\* a deque without maxlen
DequeAppendUnbounded(dq, x) == Append(dq, x)

\* deque.append on a deque with maxlen: the oldest entry is dropped when full
DequeAppend(dq, x) ==
    IF Len(dq) >= RING_MAXLEN THEN Append(Tail(dq), x) ELSE Append(dq, x)

\* sum(1 for f, v in ring_buffer if v)
NumVoiced(dq) == Cardinality({i \in 1..Len(dq) : dq[i].v})
\* a count that takes the voiced entries for the unvoiced ones
NumUnvoicedCountsVoiced(dq) == Cardinality({i \in 1..Len(dq) : dq[i].v})

\* sum(1 for f, v in ring_buffer if not v)
NumUnvoiced(dq) == Cardinality({i \in 1..Len(dq) : ~dq[i].v})

\* a threshold test that also passes at exactly 0.6
OverThresholdInclusive(n) == n * RATIO_DEN >= RATIO_NUM * RING_MAXLEN

\* n > 0.6 * ring_buffer.maxlen
OverThreshold(n) == n * RATIO_DEN > RATIO_NUM * RING_MAXLEN

\* a back-fill that walks the window newest first
FlushRingNewestFirst(sf, dq) == sf \o [i \in 1..Len(dq) |-> dq[(Len(dq) - i) + 1].f]

\* for f, _ in ring_buffer: speech_frames.append(f)
FlushRing(sf, dq) == sf \o [i \in 1..Len(dq) |-> dq[i].f]

RECURSIVE TotalLen(_)
TotalLen(fs) == IF fs = <<>> THEN 0 ELSE fs[1].len + TotalLen(Tail(fs))

\* sr.AudioData(b"".join(speech_frames), RATE, 2)
JoinFrames(fs) ==
    [kind |-> "audio", ids |-> [i \in 1..Len(fs) |-> fs[i].id], nbytes |-> TotalLen(fs)]

\* vad.is_speech(frame, RATE): a function of the frame's content alone
IsSpeech(fr) == fr.voiced

\* a length test that lets every frame through
LenOkAny(n) == TRUE

\* line 84: not (len(frame) != BYTES_PER_FRAME)
LenOk(n) == n = BYTES_PER_FRAME

\* ------------------------------------------------------------------ record_with_vad
\* the locals of a record_with_vad call that has not started
CaptureFresh ==
    /\ pa = "none"
    /\ stream = "none"
    /\ ring_buffer = <<>>
    /\ triggered = FALSE
    /\ speech_frames = <<>>
    /\ frame = NoFrame
    /\ fed = 0
    /\ result = Pending
    /\ exit_by = "none"
    /\ heard = <<>>
    /\ sil_mark = 0

\* the turn loop before its first iteration (lines 150-151), no history yet
LoopFresh ==
    /\ consecutive_errors = 0
    /\ conversation_history = <<>>
    /\ text = 0
    /\ response = 0
    /\ turns = 0
    /\ chat_calls = 0
    /\ chat_failed = 0
    /\ all_heard_ok = TRUE
    /\ appended = <<>>

CoreFresh ==
    /\ core_history = <<>>
    /\ core_keep = HISTORY_KEEP
    /\ core_appended = <<>>

\* the observers of a record_with_vad call that has not read a frame
ObsFresh ==
    /\ vad_called = FALSE
    /\ held_all = (lock = "playback")
    /\ held_drops = 0

\* no speak_text call has been made; nothing printed
SpeakFresh ==
    /\ out_stream = "none"
    /\ writes = 0
    /\ spk_ret = "none"
    /\ play_lock = "free"
    /\ notice = "none"

\* no interrupt, no chat request yet; speak_text is called with its default speed
ExtFresh ==
    /\ interrupted = FALSE
    /\ request = <<>>
    /\ speed = "1.0"
    /\ tempo = "none"
    /\ wav_bytes = "none"

NoResult == [text |-> "None", response |-> "None", audio_bytes |-> "None"]

\* AppCore.handle_audio_bytes is not running
HandleOff ==
    /\ hpc = "off"
    /\ calls = 0
    /\ return_audio = FALSE
    /\ core_text = NoneText
    /\ core_result = NoResult
    /\ tts_calls = 0

\* one call of record_with_vad, with speak_and_block calls running beside it
Init ==
    /\ cpc = "call"
    /\ CaptureFresh
    /\ script \in {"any", "scenario"}
    /\ lock = "free"
    /\ ppc = "idle"
    /\ lpc = "off"
    /\ tts_available = TRUE
    /\ LoopFresh
    /\ CoreFresh
    /\ variant = "main"
    /\ caller = "speak_and_block"
    /\ spc = "atomic"
    /\ ObsFresh
    /\ SpeakFresh
    /\ ExtFresh
    /\ HandleOff

\* lines 52-66: create PyAudio, open the stream, set up the segmenter
RvOpenOk ==
    /\ cpc = "call"
    /\ pa' = "live"
    /\ stream' = "open"
    /\ ring_buffer' = <<>>
    /\ triggered' = FALSE
    /\ speech_frames' = <<>>
    /\ cpc' = "loop"
    /\ UNCHANGED <<frame, fed, result, exit_by, script, heard, sil_mark, pbvars, loopvars, corevars, auxvars>>

\* lines 52-61: pa.open raised inside the try: pa.terminate(), return None
RvOpenFail ==
    /\ cpc = "call"
    /\ variant = "main"
    /\ pa' = "terminated"
    /\ result' = None
    /\ exit_by' = "open_failed"
    /\ cpc' = "done"
    /\ UNCHANGED <<stream, ring_buffer, triggered, speech_frames, frame, fed, script, heard, sil_mark, pbvars, loopvars, corevars, auxvars>>

\* detect_voice_debug.py:71-73: pa.open is called outside any try: the exception
\* leaves record_with_vad, the finally block of line 118 is never entered
RvOpenFailDebug ==
    /\ cpc = "call"
    /\ variant = "debug"
    /\ pa' = "live"
    /\ result' = Raised("raised")
    /\ exit_by' = "open_failed"
    /\ cpc' = "done"
    /\ UNCHANGED <<stream, ring_buffer, triggered, speech_frames, frame, fed, script, heard, sil_mark, pbvars, loopvars, corevars, auxvars>>

\* line 69: while time.time() - start_time < timeout: the deadline has elapsed
RvDeadline ==
    /\ cpc = "loop"
    /\ exit_by' = "deadline"
    /\ cpc' = "after"
    /\ UNCHANGED <<pa, stream, ring_buffer, triggered, speech_frames, frame, fed,
                   result, script, heard, sil_mark, pbvars, loopvars, corevars, auxvars>>

\* a locked branch that keeps the frame it read in the window
RvDiscardKeepsFrame ==
    /\ cpc = "loop"
    /\ lock # "free"
    /\ cpc' = "loop"
    /\ ring_buffer' = DequeAppend(ring_buffer, [f |-> NoFrame, v |-> FALSE])
    /\ held_drops' = IF held_all /\ held_drops < MaxDrops THEN held_drops + 1 ELSE held_drops
    /\ UNCHANGED <<pa, stream, triggered, speech_frames, frame, fed,
                   result, exit_by, script, heard, sil_mark, pbvars, loopvars, corevars,
                   cfgvars, vad_called, held_all, spkvars, habvars, notice, extvars, ttsvars>>

\* lines 69-77: time remains and is_playing_lock.locked(): sleep, read one frame and
\* drop it (a failed read is ignored), continue
RvDiscard ==
    /\ cpc = "loop"
    /\ lock # "free"
    /\ cpc' = "loop"
    /\ held_drops' = IF held_all /\ held_drops < MaxDrops THEN held_drops + 1 ELSE held_drops
    /\ UNCHANGED <<pa, stream, ring_buffer, triggered, speech_frames, frame, fed,
                   result, exit_by, script, heard, sil_mark, pbvars, loopvars, corevars,
                   cfgvars, vad_called, held_all, spkvars, habvars, notice, extvars, ttsvars>>

\* lines 69-71: time remains and the lock is seen free: go on to read a frame
RvLockSeenFree ==
    /\ cpc = "loop"
    /\ lock = "free"
    /\ cpc' = "read"
    /\ UNCHANGED <<pa, stream, ring_buffer, triggered, speech_frames, frame, fed,
                   result, exit_by, script, heard, sil_mark, pbvars, loopvars, corevars, auxvars>>

\* what the device can deliver as the next frame: a frame is identified by its
\* position among the frames that reach the segmenter
NextFrames ==
    {[id |-> fed + 1, len |-> BYTES_PER_FRAME, voiced |-> v] :
        v \in CASE script = "scenario" -> {ScenarioVoiced(fed + 1)}
                 [] script = "loop" -> {TRUE}
                 [] OTHER -> BOOLEAN}
    \cup {[id |-> fed + 1, len |-> ShortLen, voiced |-> FALSE]}

\* lines 79-82: stream.read raised IOError/OSError: continue
RvReadError ==
    /\ cpc = "read"
    /\ cpc' = "loop"
    /\ UNCHANGED <<pa, stream, ring_buffer, triggered, speech_frames, frame, fed,
                   result, exit_by, script, heard, sil_mark, pbvars, loopvars, corevars, auxvars>>

\* lines 80-85: a frame was read, its length is wrong: continue
RvLenBad ==
    /\ cpc = "read"
    /\ fed < Budget
    /\ \E fr \in NextFrames :
        /\ ~LenOk(fr.len)
        /\ frame' = fr
    /\ vad_called' = FALSE
    /\ cpc' = "loop"
    /\ UNCHANGED <<pa, stream, ring_buffer, triggered, speech_frames, fed,
                   result, exit_by, script, heard, sil_mark, pbvars, loopvars, corevars,
                   cfgvars, held_all, held_drops, spkvars, habvars, notice, extvars, ttsvars>>

\* lines 80-90: a frame of the right length was read, vad.is_speech raised: continue
RvVadError ==
    /\ cpc = "read"
    /\ fed < Budget
    /\ \E fr \in NextFrames :
        /\ LenOk(fr.len)
        /\ frame' = fr
    /\ vad_called' = TRUE
    /\ cpc' = "loop"
    /\ UNCHANGED <<pa, stream, ring_buffer, triggered, speech_frames, fed,
                   result, exit_by, script, heard, sil_mark, pbvars, loopvars, corevars,
                   cfgvars, held_all, held_drops, spkvars, habvars, notice, extvars, ttsvars>>

\* a segmenter that takes a frame for unvoiced when playback holds the lock
SegmentIdleSeesLock(fr) ==
    LET rb == DequeAppend(ring_buffer, [f |-> fr, v |-> IsSpeech(fr) /\ lock = "free"])
    IN  /\ ~triggered
        /\ IF OverThreshold(NumVoiced(rb))
           THEN /\ triggered' = TRUE
                /\ speech_frames' = FlushRing(speech_frames, rb)
                /\ ring_buffer' = <<>>
           ELSE /\ triggered' = FALSE
                /\ speech_frames' = speech_frames
                /\ ring_buffer' = rb
        /\ cpc' = "loop"
        /\ exit_by' = exit_by

\* lines 92-99: not triggered
SegmentIdle(fr) ==
    LET rb == DequeAppend(ring_buffer, [f |-> fr, v |-> IsSpeech(fr)])
    IN  /\ ~triggered
        /\ IF OverThreshold(NumVoiced(rb))
           THEN /\ triggered' = TRUE
                /\ speech_frames' = FlushRing(speech_frames, rb)
                /\ ring_buffer' = <<>>
           ELSE /\ triggered' = FALSE
                /\ speech_frames' = speech_frames
                /\ ring_buffer' = rb
        /\ cpc' = "loop"
        /\ exit_by' = exit_by

\* lines 100-105: triggered
SegmentTriggered(fr) ==
    LET rb == DequeAppend(ring_buffer, [f |-> fr, v |-> IsSpeech(fr)])
    IN  /\ triggered
        /\ speech_frames' = Append(speech_frames, fr)
        /\ ring_buffer' = rb
        /\ triggered' = triggered
        /\ IF OverThreshold(NumUnvoiced(rb))
           THEN cpc' = "after" /\ exit_by' = "break"
           ELSE cpc' = "loop" /\ exit_by' = exit_by

\* lines 80-105: a frame of the right length was read and classified: the segmenter
\* takes it
RvFeed ==
    /\ cpc = "read"
    /\ fed < Budget
    /\ \E fr \in NextFrames :
        /\ LenOk(fr.len)
        /\ frame' = fr
        /\ (SegmentIdle(fr) \/ SegmentTriggered(fr))
        /\ heard' = Append(heard, IsSpeech(fr))
        /\ sil_mark' = IF IsSpeech(fr) THEN Len(speech_frames') ELSE sil_mark
    /\ fed' = fed + 1
    /\ vad_called' = TRUE
    /\ UNCHANGED <<pa, stream, result, script, pbvars, loopvars, corevars,
                   cfgvars, held_all, held_drops, spkvars, habvars, notice, extvars, ttsvars>>

\* lines 63-65: the segmenter of a call that has been fed nothing
SegStart == [rb |-> <<>>, trig |-> FALSE, sf |-> <<>>, done |-> FALSE]

\* lines 92-105 as a function of the segmenter's state and the frame
SegStep(st, fr) ==
    LET rb == DequeAppend(st.rb, [f |-> fr, v |-> IsSpeech(fr)])
    IN  IF ~st.trig
        THEN IF OverThreshold(NumVoiced(rb))
             THEN [rb |-> <<>>, trig |-> TRUE, sf |-> FlushRing(st.sf, rb), done |-> FALSE]
             ELSE [rb |-> rb, trig |-> FALSE, sf |-> st.sf, done |-> FALSE]
        ELSE [rb |-> rb, trig |-> TRUE, sf |-> Append(st.sf, fr),
              done |-> OverThreshold(NumUnvoiced(rb))]

\* the i-th frame handed to the segmenter, given what the classifier said of each
FrameAt(h, i) == [id |-> i, len |-> BYTES_PER_FRAME, voiced |-> h[i]]

\* lines 69-105: a fresh segmenter fed the first n frames of h, one after the other
RECURSIVE SegRun(_, _)
SegRun(h, n) == IF n = 0 THEN SegStart ELSE SegStep(SegRun(h, n - 1), FrameAt(h, n))

\* lines 79-82: stream.read raised an exception that is neither IOError nor OSError:
\* it leaves the while loop (detect_voice_debug.py:87-91 catches every Exception)
RvRaise ==
    /\ cpc = "read"
    /\ variant = "main"
    /\ exit_by' = "raised"
    /\ cpc' = "after"
    /\ UNCHANGED <<pa, stream, ring_buffer, triggered, speech_frames, frame, fed,
                   result, script, heard, sil_mark, pbvars, loopvars, corevars, auxvars>>

\* lines 68-105: KeyboardInterrupt arrives while the loop runs; no except clause of
\* record_with_vad catches it
RvInterrupt ==
    /\ cpc \in {"loop", "read"}
    /\ exit_by' = "interrupt"
    /\ cpc' = "after"
    /\ UNCHANGED <<pa, stream, ring_buffer, triggered, speech_frames, frame, fed,
                   result, script, heard, sil_mark, pbvars, loopvars, corevars, auxvars>>

\* a return that drops utterances shorter than one window
ReturnValueMinWindow(sf) == IF Len(sf) < RING_MAXLEN THEN None ELSE JoinFrames(sf)

\* lines 107-111
ReturnValue(sf) == IF sf = <<>> THEN None ELSE JoinFrames(sf)

\* what the caller gets: the exception that left the loop, else the return value
Outcome(by, sf) == IF by \in {"raised", "interrupt"} THEN Raised(by) ELSE ReturnValue(sf)

\* lines 107-111 and the finally block 113-120: stop and close the stream, terminate
\* PyAudio
RvReturn ==
    /\ cpc = "after"
    /\ result' = Outcome(exit_by, speech_frames)
    /\ stream' = "closed"
    /\ pa' = "terminated"
    /\ cpc' = "done"
    /\ UNCHANGED <<ring_buffer, triggered, speech_frames, frame, fed, exit_by, script, heard, sil_mark, pbvars, loopvars, corevars, auxvars>>

\* ------------------------------------------------------------------ speak_and_block
\* speak_and_block has returned: the turn loop goes on (line 214); a thread that only
\* plays is ready for its next call
PbAfterReturn == IF lpc = "off" THEN "idle" ELSE "returned"

\* line 137: speak_text is entered; where the call is taken as one step ("atomic")
\* its position is not followed
SpkEnter(s) == IF s = "atomic" THEN "atomic" ELSE "entry"
SpkLeave(s) == IF s = "atomic" THEN "atomic" ELSE "idle"

\* what the steps of speak_text leave alone
spkrest == <<capvars, pbvars, loopvars, corevars, cfgvars, obsvars, play_lock, habvars, notice,
             extvars, speed>>

\* lines 132-133: TTS is not available: return at once
PbNoTts ==
    /\ ppc = "idle"
    /\ caller = "speak_and_block"
    /\ ~tts_available
    /\ ppc' = PbAfterReturn
    /\ UNCHANGED <<lock, capvars, loopvars, corevars, auxvars>>

\* lines 132-137: with is_playing_lock (acquire), then speak_text is called
PbAcquire ==
    /\ ppc = "idle"
    /\ caller = "speak_and_block"
    /\ tts_available
    /\ lock = "free"
    /\ lock' = "playback"
    /\ ppc' = "speaking"
    /\ spc' = SpkEnter(spc)
    /\ UNCHANGED <<capvars, loopvars, corevars, cfgvars, obsvars, out_stream, writes,
                   spk_ret, play_lock, habvars, notice, extvars, ttsvars>>

\* a with block that does not release the lock
PbReleaseKeepsLock ==
    /\ ppc = "speaking"
    /\ caller = "speak_and_block"
    /\ spc \in {"atomic", "returned"}
    /\ ppc' = PbAfterReturn
    /\ spc' = SpkLeave(spc)
    /\ out_stream' = "none"
    /\ writes' = 0
    /\ UNCHANGED <<lock, capvars, loopvars, corevars, cfgvars, obsvars,
                   spk_ret, play_lock, habvars, notice, extvars, ttsvars>>

\* tts_api.py:53, 71: a stream that was not closed stays open in the module's PyAudio
\* instance; the local that named it is gone
StreamLeft(o) == IF o = "open" THEN "open" ELSE "none"

\* lines 136-139: speak_text returned or raised; leaving the with block releases the lock
PbRelease ==
    /\ ppc = "speaking"
    /\ caller = "speak_and_block"
    /\ spc \in {"atomic", "returned"}
    /\ lock' = "free"
    /\ ppc' = PbAfterReturn
    /\ spc' = SpkLeave(spc)
    /\ out_stream' = StreamLeft(out_stream)
    /\ writes' = 0
    /\ held_all' = FALSE
    /\ UNCHANGED <<capvars, loopvars, corevars, cfgvars, vad_called, held_drops,
                   spk_ret, play_lock, habvars, notice, extvars, ttsvars>>

\* lines 130-139: speak_and_block has no return statement
SpeakAndBlockResult(ret) == "None"

\* ------------------------------------------------------------------ AppCore.speak
\* app_core.py:72-75: speak_text is called; _play_lock is not acquired
CoreSpeakCall ==
    /\ ppc = "idle"
    /\ caller = "AppCore.speak"
    /\ ppc' = "speaking"
    /\ spc' = "entry"
    /\ UNCHANGED <<lock, capvars, loopvars, corevars, cfgvars, obsvars, out_stream, writes,
                   spk_ret, play_lock, habvars, notice, extvars, ttsvars>>

\* app_core.py:75-78: return what speak_text returned, False when it raised
CoreSpeakResult(ret) == IF ret = "raised" THEN "False" ELSE ret

CoreSpeakReturn ==
    /\ ppc = "speaking"
    /\ caller = "AppCore.speak"
    /\ spc = "returned"
    /\ ppc' = "idle"
    /\ spc' = "idle"
    /\ out_stream' = "none"
    /\ writes' = 0
    /\ UNCHANGED <<lock, capvars, loopvars, corevars, cfgvars, obsvars,
                   spk_ret, play_lock, habvars, notice, extvars, ttsvars>>

\* ------------------------------------------------------------------ tts_api.speak_text
\* tts_api.py:123-130: no API key or no voice id: return False (detect_voice calls
\* speak_text only when ELEVEN_API_KEY is set, detect_voice.py:18, 132)
StNoKey ==
    /\ spc = "entry"
    /\ caller = "AppCore.speak"
    /\ spc' = "returned"
    /\ spk_ret' = "False"
    /\ UNCHANGED <<spkrest, out_stream, writes, tempo, wav_bytes>>

\* tts_api.py:132-136: the request is sent to the synthesis service
StRequest ==
    /\ spc = "entry"
    /\ spc' = "request"
    /\ UNCHANGED <<spkrest, out_stream, writes, spk_ret, tempo, wav_bytes>>

\* tts_api.py:137-147: RequestException, or a status >= 400: return False
StRequestFail ==
    /\ spc = "request"
    /\ spc' = "returned"
    /\ spk_ret' = "False"
    /\ UNCHANGED <<spkrest, out_stream, writes, tempo, wav_bytes>>

\* tts_api.py:136, 156: an exception that is not a RequestException leaves speak_text
StRaise ==
    /\ spc = "request"
    /\ spc' = "returned"
    /\ spk_ret' = "raised"
    /\ UNCHANGED <<spkrest, out_stream, writes, tempo, wav_bytes>>

\* tts_api.py:141-152: the response has arrived with the encoded audio
StResponse ==
    /\ spc = "request"
    /\ spc' = "decode"
    /\ wav_bytes' = "original"
    /\ UNCHANGED <<spkrest, out_stream, writes, spk_ret, tempo>>

\* tts_api.py:174-197: speed != 1.0 and ffmpeg is there: wav_bytes becomes what ffmpeg
\* wrote to its standard output; the return code is 0
StTempoOk ==
    /\ spc = "decode"
    /\ speed # "1.0"
    /\ tempo = "none"
    /\ tempo' = "ok"
    /\ wav_bytes' = "tempo"
    /\ UNCHANGED <<spkrest, spc, out_stream, writes, spk_ret>>

\* tts_api.py:197-200: wav_bytes, _ = p.communicate(wav_bytes) has assigned ffmpeg's
\* standard output already when the return code is found to be non-zero: pass
StTempoFail ==
    /\ spc = "decode"
    /\ speed # "1.0"
    /\ tempo = "none"
    /\ tempo' = "failed"
    /\ wav_bytes' = "stdout"
    /\ UNCHANGED <<spkrest, spc, out_stream, writes, spk_ret>>

\* tts_api.py:201-212: no ffmpeg: the speed change is skipped
StTempoSkip ==
    /\ spc = "decode"
    /\ speed # "1.0"
    /\ tempo = "none"
    /\ tempo' = "skipped"
    /\ UNCHANGED <<spkrest, spc, out_stream, writes, spk_ret, wav_bytes>>

\* tts_api.py:175-214: an exception before communicate returns (Popen fails): pass
StTempoRaise ==
    /\ spc = "decode"
    /\ speed # "1.0"
    /\ tempo = "none"
    /\ tempo' = "raised"
    /\ UNCHANGED <<spkrest, spc, out_stream, writes, spk_ret, wav_bytes>>

\* tts_api.py:162-171 and 63-68: the audio is not WAV and cannot be converted, or
\* wave.open fails: return False
StDecodeFail ==
    /\ spc = "decode"
    /\ spc' = "returned"
    /\ spk_ret' = "False"
    /\ tempo' = "none"
    /\ wav_bytes' = "none"
    /\ UNCHANGED <<spkrest, out_stream, writes>>

\* tts_api.py:174, 216-217 and 70-76: the speed change, if any, is over;
\* _play_wav_bytes(wav_bytes) opens the output stream
StOpenOutput ==
    /\ spc = "decode"
    /\ speed = "1.0" \/ tempo # "none"
    /\ spc' = "play"
    /\ out_stream' = "open"
    /\ writes' = 0
    /\ UNCHANGED <<spkrest, spk_ret, tempo, wav_bytes>>

\* tts_api.py:77-79: stream.write(data)
StWrite ==
    /\ spc = "play"
    /\ writes < MaxChunks
    /\ writes' = writes + 1
    /\ UNCHANGED <<spkrest, spc, out_stream, spk_ret, tempo, wav_bytes>>

\* tts_api.py:82-89: an exception while playing: stop and close, return False
StPlayError ==
    /\ spc = "play"
    /\ out_stream' = "closed"
    /\ spc' = "returned"
    /\ spk_ret' = "False"
    /\ tempo' = "none"
    /\ wav_bytes' = "none"
    /\ UNCHANGED <<spkrest, writes>>

\* tts_api.py:80-81, 92, 217-218: all data written: stop and close, return True
StPlayDone ==
    /\ spc = "play"
    /\ out_stream' = "closed"
    /\ spc' = "returned"
    /\ spk_ret' = "True"
    /\ tempo' = "none"
    /\ wav_bytes' = "none"
    /\ UNCHANGED <<spkrest, writes>>

\* tts_api.py:136-158, 70-92: KeyboardInterrupt arrives while speak_text waits for the
\* service or plays: no except clause catches it (82: except Exception), the finally
\* of line 90 closes the wave reader only
StInterrupt ==
    /\ spc \in {"request", "decode", "play"}
    /\ spc' = "returned"
    /\ spk_ret' = "interrupt"
    /\ tempo' = "none"
    /\ wav_bytes' = "none"
    /\ UNCHANGED <<spkrest, out_stream, writes>>

\* ------------------------------------------------------------------ speak_text called directly
\* tts_api.py:118: speak_text(text, language, voice_id, speed) is called by a program
\* that chooses the speed
DirectCall ==
    /\ ppc = "idle"
    /\ caller = "direct"
    /\ ppc' = "speaking"
    /\ spc' = "entry"
    /\ speed' \in {"1.0", "1.5"}
    /\ UNCHANGED <<lock, capvars, loopvars, corevars, cfgvars, obsvars, out_stream, writes,
                   spk_ret, play_lock, habvars, notice, extvars, tempo, wav_bytes>>

\* tts_api.py:218: speak_text has returned to its caller
DirectReturn ==
    /\ ppc = "speaking"
    /\ caller = "direct"
    /\ spc = "returned"
    /\ ppc' = "idle"
    /\ spc' = "idle"
    /\ out_stream' = "none"
    /\ writes' = 0
    /\ UNCHANGED <<lock, capvars, loopvars, corevars, cfgvars, obsvars,
                   spk_ret, play_lock, habvars, notice, extvars, ttsvars>>

\* ------------------------------------------------------------------ append_history
Entry(role, content) == [role |-> role, content |-> content]

\* a trim that deletes from the wrong end and keeps the oldest entries
DvAppendHistoryKeepsOldest(h, role, content) ==
    LET a == Append(h, Entry(role, content))
    IN  IF Len(a) > HISTORY_KEEP THEN SubSeq(a, 1, HISTORY_KEEP) ELSE a

\* detect_voice.py:125-127: append, then del history[0 : len(history) - HISTORY_KEEP]
DvAppendHistory(h, role, content) ==
    LET a == Append(h, Entry(role, content))
    IN  IF Len(a) > HISTORY_KEEP
        THEN SubSeq(a, (Len(a) - HISTORY_KEEP) + 1, Len(a))
        ELSE a

\* Python's del a[0:n] for 0 <= n <= len(a)
DelPrefix(a, n) == SubSeq(a, n + 1, Len(a))

\* detect_voice.py:123-127 with the bound HISTORY_KEEP set to keep
DvAppendHistoryWith(h, keep, role, content) ==
    LET a == Append(h, Entry(role, content))
    IN  IF Len(a) > keep THEN DelPrefix(a, Len(a) - keep) ELSE a

\* Python's a[-k:]: the last k entries, the whole list when k = 0 or k >= len(a)
SliceLast(a, k) ==
    IF k = 0 \/ k >= Len(a) THEN a ELSE SubSeq(a, (Len(a) - k) + 1, Len(a))

\* app_core.py:26-28: append, then history = history[-history_keep:]
CoreAppendHistory(h, keep, role, content) ==
    LET a == Append(h, Entry(role, content))
    IN  IF Len(a) > keep THEN SliceLast(a, keep) ELSE a

\* ------------------------------------------------------------------ _build_messages
\* a message of a chat request; hinted: the language hint stands before the content
Message(role, hinted, content) == [role |-> role, hinted |-> hinted, content |-> content]

\* deepseek_api.py:88-92: the last DS_HISTORY_KEEP entries of convo_history, as messages
HistoryTail(convo_history) ==
    LET tail == SliceLast(convo_history, DS_HISTORY_KEEP)
    IN  [i \in 1..Len(tail) |-> Message(tail[i].role, FALSE, tail[i].content)]

\* deepseek_api.py:82-102: system prompt, history tail, then hint + user_text
BuildMessages(user_text, convo_history) ==
    <<Message("system", FALSE, SystemPrompt)>>
        \o HistoryTail(convo_history)
        \o <<Message("user", TRUE, user_text)>>

\* append_history(role, content) of detect_voice and of AppCore, each called with the
\* same free arguments
HistAppend ==
    /\ lpc = "hist"
    /\ Len(appended) < MaxAppends
    /\ Len(core_appended) < MaxAppends
    /\ \E role \in {"user", "assistant"} :
        LET content == Len(appended) + 1
        IN  /\ conversation_history' = DvAppendHistory(conversation_history, role, content)
            /\ appended' = Append(appended, Entry(role, content))
            /\ core_history' = CoreAppendHistory(core_history, core_keep, role, content)
            /\ core_appended' = Append(core_appended, Entry(role, content))
    /\ UNCHANGED <<capvars, pbvars, lpc, consecutive_errors, text, response,
                   tts_available, turns, chat_calls, chat_failed, all_heard_ok, core_keep, auxvars>>

\* the two append_history, each with the bound core_keep, called with the same
\* free arguments
KeepAppend ==
    /\ lpc = "keep"
    /\ Len(appended) < MaxAppends
    /\ \E role \in {"user", "assistant"} :
        LET content == Len(appended) + 1
        IN  /\ conversation_history' =
                   DvAppendHistoryWith(conversation_history, core_keep, role, content)
            /\ appended' = Append(appended, Entry(role, content))
            /\ core_history' = CoreAppendHistory(core_history, core_keep, role, content)
            /\ core_appended' = Append(core_appended, Entry(role, content))
    /\ UNCHANGED <<capvars, pbvars, lpc, consecutive_errors, text, response,
                   tts_available, turns, chat_calls, chat_failed, all_heard_ok, core_keep, auxvars>>

\* app_core.py:53-62: get_deepseek_response returned: user turn, then assistant turn
CoreGetResponseOk ==
    /\ lpc = "hist"
    /\ Len(core_appended) + 2 <= MaxAppends
    /\ LET t == Len(core_appended) + 1
           r == Len(core_appended) + 2
           h1 == CoreAppendHistory(core_history, core_keep, "user", t)
       IN  /\ core_history' = CoreAppendHistory(h1, core_keep, "assistant", r)
           /\ core_appended' = core_appended \o <<Entry("user", t), Entry("assistant", r)>>
    /\ chat_calls' = chat_calls + 1
    /\ request' = BuildMessages(Len(core_appended) + 1, core_history)
    /\ UNCHANGED <<capvars, pbvars, lpc, consecutive_errors, conversation_history, text,
                   response, tts_available, turns, chat_failed, all_heard_ok, appended,
                   core_keep, auxrest>>

\* app_core.py:63-69: get_deepseek_response raised: the error message is returned
CoreGetResponseFail ==
    /\ lpc = "hist"
    /\ chat_calls < MaxAppends
    /\ chat_calls' = chat_calls + 1
    /\ chat_failed' = chat_failed + 1
    /\ request' = BuildMessages(Len(core_appended) + 1, core_history)
    /\ UNCHANGED <<capvars, pbvars, lpc, consecutive_errors, conversation_history, text,
                   response, tts_available, turns, all_heard_ok, appended, corevars, auxrest>>

\* ------------------------------------------------------------------ listen_loop
\* one more consecutive error: lines 169-174, 193-197, 201-205, 222-226
CountError(n) == n + 1
\* a breaker that opens one error late
AfterErrorOneLate(n) == IF CountError(n) > max_consecutive_errors THEN "exited" ELSE "top"
AfterError(n) == IF CountError(n) >= max_consecutive_errors THEN "exited" ELSE "top"

\* line 155: the loop calls record_with_vad(timeout=30)
LoopCallCapture ==
    /\ lpc = "top"
    /\ turns < MaxTurns
    /\ turns' = turns + 1
    /\ lpc' = "capture"
    /\ cpc' = "call"
    /\ pa' = "none"
    /\ stream' = "none"
    /\ ring_buffer' = <<>>
    /\ triggered' = FALSE
    /\ speech_frames' = <<>>
    /\ frame' = NoFrame
    /\ fed' = 0
    /\ result' = Pending
    /\ exit_by' = "none"
    /\ heard' = <<>>
    /\ sil_mark' = 0
    /\ vad_called' = FALSE
    /\ held_all' = (lock = "playback")
    /\ held_drops' = 0
    /\ notice' = "none"
    /\ spk_ret' = "none"
    /\ UNCHANGED <<script, pbvars, consecutive_errors, conversation_history, text, response,
                   tts_available, chat_calls, chat_failed, all_heard_ok, appended, corevars,
                   cfgvars, spc, out_stream, writes, play_lock, habvars, extvars, ttsvars>>

\* lines 156-158: record_with_vad returned None: sleep and continue
LoopNoSpeech ==
    /\ lpc = "capture"
    /\ cpc = "done"
    /\ result = None
    /\ lpc' = "top"
    /\ all_heard_ok' = FALSE
    /\ UNCHANGED <<capvars, pbvars, consecutive_errors, conversation_history, text, response,
                   tts_available, turns, chat_calls, chat_failed, appended, corevars, auxvars>>

\* a loop that lets an exception of record_with_vad through
LoopUnexpectedEscapes ==
    /\ lpc = "capture"
    /\ cpc = "done"
    /\ result.kind = "raised"
    /\ lpc' = "exited"
    /\ all_heard_ok' = FALSE
    /\ UNCHANGED <<capvars, pbvars, consecutive_errors, conversation_history, text, response,
                   tts_available, turns, chat_calls, chat_failed, appended, corevars, auxvars>>

\* lines 155, 219-226: an exception left record_with_vad: count it, break or sleep
\* and continue
LoopUnexpected ==
    /\ lpc = "capture"
    /\ cpc = "done"
    /\ result.kind = "raised"
    /\ consecutive_errors' = CountError(consecutive_errors)
    /\ lpc' = AfterError(consecutive_errors)
    /\ all_heard_ok' = FALSE
    /\ UNCHANGED <<capvars, pbvars, conversation_history, text, response, tts_available,
                   turns, chat_calls, chat_failed, appended, corevars, auxvars>>

\* lines 155-156: record_with_vad returned audio
LoopGotAudio ==
    /\ lpc = "capture"
    /\ cpc = "done"
    /\ result.kind = "audio"
    /\ lpc' = "transcribe"
    /\ UNCHANGED <<capvars, pbvars, consecutive_errors, conversation_history, text, response,
                   tts_available, turns, chat_calls, chat_failed, all_heard_ok, appended, corevars, auxvars>>

\* lines 162-163: recognize_google returned a string, the text of this turn or the
\* empty string
LoopTranscribeOk ==
    /\ lpc = "transcribe"
    /\ text' \in {turns, EmptyText}
    /\ consecutive_errors' = 0
    /\ lpc' = "respond"
    /\ UNCHANGED <<capvars, pbvars, conversation_history, response, tts_available, turns,
                   chat_calls, chat_failed, all_heard_ok, appended, corevars, auxvars>>

\* an unintelligible turn that resets the counter
LoopUnintelligibleResets ==
    /\ lpc = "transcribe"
    /\ lpc' = "top"
    /\ consecutive_errors' = 0
    /\ all_heard_ok' = FALSE
    /\ notice' = "could_not_understand"
    /\ UNCHANGED <<capvars, pbvars, conversation_history, text, response,
                   tts_available, turns, chat_calls, chat_failed, appended, corevars,
                   cfgvars, obsvars, spkvars, habvars, extvars, ttsvars>>

\* lines 164-166: sr.UnknownValueError: continue
LoopUnintelligible ==
    /\ lpc = "transcribe"
    /\ lpc' = "top"
    /\ all_heard_ok' = FALSE
    /\ notice' = "could_not_understand"
    /\ UNCHANGED <<capvars, pbvars, consecutive_errors, conversation_history, text, response,
                   tts_available, turns, chat_calls, chat_failed, appended, corevars,
                   cfgvars, obsvars, spkvars, habvars, extvars, ttsvars>>

\* lines 167-174: sr.RequestError, and lines 219-226: any other exception
LoopTranscribeError ==
    /\ lpc = "transcribe"
    /\ consecutive_errors' = CountError(consecutive_errors)
    /\ lpc' = AfterError(consecutive_errors)
    /\ all_heard_ok' = FALSE
    /\ UNCHANGED <<capvars, pbvars, conversation_history, text, response, tts_available,
                   turns, chat_calls, chat_failed, appended, corevars, auxvars>>

\* line 177: append_history("user", text), before the chat call
HistoryForChat(h, t) == DvAppendHistory(h, "user", t)

\* lines 176-190: the user turn is appended, get_deepseek_response returns, the
\* assistant turn is appended, the counter is reset
LoopRespondOk ==
    /\ lpc = "respond"
    /\ response' = text
    /\ conversation_history' =
           DvAppendHistory(HistoryForChat(conversation_history, text), "assistant", text)
    /\ appended' = appended \o <<Entry("user", text), Entry("assistant", text)>>
    /\ consecutive_errors' = 0
    /\ chat_calls' = chat_calls + 1
    /\ request' = BuildMessages(text, HistoryForChat(conversation_history, text))
    /\ lpc' = "speak"
    /\ UNCHANGED <<capvars, pbvars, text, tts_available, turns, chat_failed, all_heard_ok,
                   corevars, auxrest>>

\* lines 176-185, 191-205: the user turn is appended, get_deepseek_response raises
\* (RequestException or any other exception): count the error, break or continue
LoopRespondError ==
    /\ lpc = "respond"
    /\ conversation_history' = HistoryForChat(conversation_history, text)
    /\ consecutive_errors' = CountError(consecutive_errors)
    /\ lpc' = AfterError(consecutive_errors)
    /\ chat_calls' = chat_calls + 1
    /\ chat_failed' = chat_failed + 1
    /\ appended' = Append(appended, Entry("user", text))
    /\ request' = BuildMessages(text, HistoryForChat(conversation_history, text))
    /\ UNCHANGED <<capvars, pbvars, text, response, tts_available, turns, all_heard_ok,
                   corevars, auxrest>>

\* lines 208-210: TTS_AVAILABLE: call speak_and_block
LoopSpeak ==
    /\ lpc = "speak"
    /\ tts_available
    /\ ppc' = "idle"
    /\ lpc' = "speaking"
    /\ UNCHANGED <<lock, capvars, consecutive_errors, conversation_history, text, response,
                   tts_available, turns, chat_calls, chat_failed, all_heard_ok, appended, corevars, auxvars>>

\* a loop that gives up when the reply could not be played
AfterSpeakStopsOnFailure(ret) == IF ret = "True" THEN "top" ELSE "exited"

\* lines 209-214: whatever speak_text did, sleep and go on with the next iteration
AfterSpeak(ret) == "top"

\* lines 210-214: speak_and_block returned: sleep, next iteration
LoopSpoke ==
    /\ lpc = "speaking"
    /\ ppc = "returned"
    /\ spk_ret # "interrupt"
    /\ ppc' = "off"
    /\ lpc' = AfterSpeak(spk_ret)
    /\ UNCHANGED <<lock, capvars, consecutive_errors, conversation_history, text, response,
                   tts_available, turns, chat_calls, chat_failed, all_heard_ok, appended, corevars, auxvars>>

\* lines 208, 214: TTS is not available: text-only turn
LoopNoTts ==
    /\ lpc = "speak"
    /\ ~tts_available
    /\ lpc' = "top"
    /\ UNCHANGED <<capvars, pbvars, consecutive_errors, conversation_history, text, response,
                   tts_available, turns, chat_calls, chat_failed, all_heard_ok, appended, corevars, auxvars>>

\* deepseek_api.py:140-150 and lines 186-190: the body has no
\* choices[0].message.content: get_deepseek_response catches KeyError/IndexError and
\* returns str(data); listen_loop takes it for the reply
LoopRespondMalformed ==
    /\ lpc = "respond"
    /\ response' = MalformedReply
    /\ conversation_history' =
           DvAppendHistory(HistoryForChat(conversation_history, text), "assistant", MalformedReply)
    /\ appended' = appended \o <<Entry("user", text), Entry("assistant", MalformedReply)>>
    /\ consecutive_errors' = 0
    /\ chat_calls' = chat_calls + 1
    /\ request' = BuildMessages(text, HistoryForChat(conversation_history, text))
    /\ lpc' = "speak"
    /\ UNCHANGED <<capvars, pbvars, text, tts_available, turns, chat_failed, all_heard_ok,
                   corevars, auxrest>>

\* what an iteration cut short by KeyboardInterrupt leaves alone
intrest == <<cfgvars, obsvars, spkvars, habvars, notice, ttsvars>>

\* lines 155, 216-218: KeyboardInterrupt left record_with_vad: break
LoopInterrupted ==
    /\ lpc = "capture"
    /\ cpc = "done"
    /\ result.kind = "interrupt"
    /\ lpc' = "exited"
    /\ interrupted' = TRUE
    /\ UNCHANGED <<capvars, pbvars, consecutive_errors, conversation_history, text, response,
                   tts_available, turns, chat_calls, chat_failed, all_heard_ok, appended,
                   corevars, intrest, request>>

\* lines 157, 162, 214, 216-218: KeyboardInterrupt arrives during a sleep or during
\* recognize_google: break
LoopInterrupt ==
    /\ lpc \in {"top", "transcribe", "speak"}
    /\ lpc' = "exited"
    /\ interrupted' = TRUE
    /\ UNCHANGED <<capvars, pbvars, consecutive_errors, conversation_history, text, response,
                   tts_available, turns, chat_calls, chat_failed, all_heard_ok, appended,
                   corevars, intrest, request>>

\* lines 176-185, 216-218: the user turn is appended, KeyboardInterrupt arrives while
\* get_deepseek_response waits for the service: break
LoopInterruptRespond ==
    /\ lpc = "respond"
    /\ conversation_history' = HistoryForChat(conversation_history, text)
    /\ appended' = Append(appended, Entry("user", text))
    /\ chat_calls' = chat_calls + 1
    /\ chat_failed' = chat_failed + 1
    /\ request' = BuildMessages(text, HistoryForChat(conversation_history, text))
    /\ lpc' = "exited"
    /\ interrupted' = TRUE
    /\ UNCHANGED <<capvars, pbvars, consecutive_errors, text, response, tts_available, turns,
                   all_heard_ok, corevars, intrest>>

\* lines 210, 216-218: KeyboardInterrupt left speak_and_block (its except Exception
\* does not catch it, the with block has released the lock): break
LoopInterruptedSpeak ==
    /\ lpc = "speaking"
    /\ ppc = "returned"
    /\ spk_ret = "interrupt"
    /\ ppc' = "off"
    /\ lpc' = "exited"
    /\ interrupted' = TRUE
    /\ UNCHANGED <<lock, capvars, consecutive_errors, conversation_history, text, response,
                   tts_available, turns, chat_calls, chat_failed, all_heard_ok, appended,
                   corevars, intrest, request>>

\* ------------------------------------------------------------------ AppCore.handle_audio_bytes
\* what the steps of handle_audio_bytes leave alone
habrest == <<capvars, pbvars, lpc, consecutive_errors, conversation_history, text, response,
             tts_available, turns, all_heard_ok, appended, core_keep, cfgvars, obsvars,
             spkvars, notice, interrupted, ttsvars>>

\* app_core.py:104: not text
Falsy(t) == t \in {NoneText, EmptyText}

\* app_core.py:35-48: transcribe_bytes returns None or a string, which may be empty;
\* the text of a call is numbered by the call
TranscribeResults == {NoneText, EmptyText, calls}

\* app_core.py:118: if return_audio
AfterResponse(ra) == IF ra THEN "tts" ELSE "idle"

\* app_core.py:89-103: handle_audio_bytes(audio_bytes, return_audio) is called
HabCall ==
    /\ hpc = "idle"
    /\ calls < MaxCalls
    /\ calls' = calls + 1
    /\ return_audio' \in BOOLEAN
    /\ core_text' = NoneText
    /\ core_result' = NoResult
    /\ hpc' = "transcribe"
    /\ UNCHANGED <<habrest, chat_calls, chat_failed, core_history, core_appended, tts_calls, request>>

\* app_core.py:103-109: transcribe_bytes returned nothing usable: the fixed message
\* is the response, the result is returned
HabNotUnderstood ==
    /\ hpc = "transcribe"
    /\ \E t \in TranscribeResults :
        /\ Falsy(t)
        /\ core_text' = t
    /\ core_result' = [core_result EXCEPT !.response = "could_not_understand"]
    /\ hpc' = "idle"
    /\ UNCHANGED <<habrest, chat_calls, chat_failed, core_history, core_appended, calls,
                   return_audio, tts_calls, request>>

\* app_core.py:103-111: transcribe_bytes returned a text
HabTranscribed ==
    /\ hpc = "transcribe"
    /\ \E t \in TranscribeResults :
        /\ ~Falsy(t)
        /\ core_text' = t
    /\ core_result' = [core_result EXCEPT !.text = "text"]
    /\ hpc' = "respond"
    /\ UNCHANGED <<habrest, chat_calls, chat_failed, core_history, core_appended, calls,
                   return_audio, tts_calls, request>>

\* app_core.py:114-115 and 53-62: get_response: the chat call returned, user turn and
\* assistant turn are appended
HabRespondOk ==
    /\ hpc = "respond"
    /\ LET h1 == CoreAppendHistory(core_history, core_keep, "user", core_text)
       IN  core_history' = CoreAppendHistory(h1, core_keep, "assistant", core_text)
    /\ core_appended' =
           core_appended \o <<Entry("user", core_text), Entry("assistant", core_text)>>
    /\ chat_calls' = chat_calls + 1
    /\ core_result' = [core_result EXCEPT !.response = "reply"]
    /\ request' = BuildMessages(core_text, core_history)
    /\ hpc' = AfterResponse(return_audio)
    /\ UNCHANGED <<habrest, chat_failed, calls, return_audio, core_text, tts_calls>>

\* app_core.py:114-115 and 63-69: get_response: the chat call raised, the error
\* message is returned as the response
HabRespondFail ==
    /\ hpc = "respond"
    /\ chat_calls' = chat_calls + 1
    /\ chat_failed' = chat_failed + 1
    /\ core_result' = [core_result EXCEPT !.response = "error_message"]
    /\ request' = BuildMessages(core_text, core_history)
    /\ hpc' = AfterResponse(return_audio)
    /\ UNCHANGED <<habrest, core_history, core_appended, calls, return_audio, core_text,
                   tts_calls>>

\* app_core.py:118-122 and 80-86: get_tts_bytes(response): bytes, or None on failure
HabTts ==
    /\ hpc = "tts"
    /\ tts_calls' = tts_calls + 1
    /\ \E a \in {"bytes", "None"} : core_result' = [core_result EXCEPT !.audio_bytes = a]
    /\ hpc' = "idle"
    /\ UNCHANGED <<habrest, chat_calls, chat_failed, core_history, core_appended, calls,
                   return_audio, core_text, request>>

\* ------------------------------------------------------------------ specifications
Capture ==
    \/ RvOpenOk \/ RvOpenFail \/ RvDeadline \/ RvDiscard \/ RvLockSeenFree
    \/ RvReadError \/ RvLenBad \/ RvVadError \/ RvFeed \/ RvReturn

Playback == PbAcquire \/ PbRelease

Next == Capture \/ Playback

Spec == Init /\ [][Next]_vars

\* speak_text from the request on (tts_api.py:132-218)
SpeakText ==
    \/ StRequest \/ StRequestFail \/ StRaise \/ StResponse \/ StDecodeFail
    \/ StOpenOutput \/ StWrite \/ StPlayError \/ StPlayDone

\* listen_loop: a single thread that calls record_with_vad and speak_and_block in turn
LoopInit ==
    /\ cpc = "idle"
    /\ CaptureFresh
    /\ script = "loop"
    /\ lock = "free"
    /\ ppc = "off"
    /\ lpc = "top"
    /\ tts_available \in BOOLEAN
    /\ LoopFresh
    /\ CoreFresh
    /\ variant = "main"
    /\ caller = "speak_and_block"
    /\ spc = "idle"
    /\ ObsFresh
    /\ SpeakFresh
    /\ ExtFresh
    /\ HandleOff

LoopNext ==
    \/ LoopCallCapture \/ LoopNoSpeech \/ LoopGotAudio
    \/ LoopTranscribeOk \/ LoopUnintelligible \/ LoopTranscribeError
    \/ LoopRespondOk \/ LoopRespondError
    \/ LoopSpeak \/ LoopSpoke \/ LoopNoTts
    \/ LoopUnexpected
    \/ RvOpenOk \/ RvOpenFail \/ RvDeadline \/ RvLockSeenFree
    \/ RvReadError \/ RvLenBad \/ RvVadError \/ RvFeed \/ RvRaise \/ RvReturn
    \/ PbAcquire \/ PbRelease
    \/ SpeakText

SpecLoop == LoopInit /\ [][LoopNext]_vars

\* listen_loop with the user interrupt
Interrupts ==
    \/ RvInterrupt \/ StInterrupt
    \/ LoopInterrupted \/ LoopInterrupt \/ LoopInterruptRespond \/ LoopInterruptedSpeak

StopNext == LoopNext \/ Interrupts

SpecStop == LoopInit /\ [][StopNext]_vars

\* listen_loop with the reply without content
ChatNext == LoopNext \/ LoopRespondMalformed

SpecChat == LoopInit /\ [][ChatNext]_vars

\* the two conversation histories under calls of append_history and get_response
HistInit ==
    /\ cpc = "idle"
    /\ CaptureFresh
    /\ script = "loop"
    /\ lock = "free"
    /\ ppc = "off"
    /\ lpc = "hist"
    /\ tts_available = TRUE
    /\ LoopFresh
    /\ CoreFresh
    /\ variant = "main"
    /\ caller = "speak_and_block"
    /\ spc = "atomic"
    /\ ObsFresh
    /\ SpeakFresh
    /\ ExtFresh
    /\ HandleOff

HistNext == HistAppend \/ CoreGetResponseOk \/ CoreGetResponseFail

SpecHist == HistInit /\ [][HistNext]_vars

\* one call of record_with_vad of either file with every way of leaving it, beside
\* speak_and_block calls; a playback may be under way when the call begins
ExitInit ==
    /\ cpc = "call"
    /\ CaptureFresh
    /\ script = "short"
    /\ lock \in {"free", "playback"}
    /\ ppc = (IF lock = "free" THEN "idle" ELSE "speaking")
    /\ lpc = "off"
    /\ tts_available = TRUE
    /\ LoopFresh
    /\ CoreFresh
    /\ variant \in {"main", "debug"}
    /\ caller = "speak_and_block"
    /\ spc = "atomic"
    /\ ObsFresh
    /\ SpeakFresh
    /\ ExtFresh
    /\ HandleOff

ExitNext ==
    \/ RvOpenOk \/ RvOpenFail \/ RvOpenFailDebug \/ RvDeadline \/ RvDiscard
    \/ RvLockSeenFree \/ RvReadError \/ RvLenBad \/ RvVadError \/ RvFeed
    \/ RvRaise \/ RvInterrupt \/ RvReturn
    \/ PbAcquire \/ PbRelease

SpecExit == ExitInit /\ [][ExitNext]_vars

\* the playback path alone, called again and again through speak_and_block or
\* through AppCore.speak
SpeakInit ==
    /\ cpc = "idle"
    /\ CaptureFresh
    /\ script = "loop"
    /\ lock = "free"
    /\ ppc = "idle"
    /\ lpc = "off"
    /\ tts_available \in BOOLEAN
    /\ LoopFresh
    /\ CoreFresh
    /\ variant = "main"
    /\ caller \in {"speak_and_block", "AppCore.speak"}
    /\ spc = "idle"
    /\ ObsFresh
    /\ SpeakFresh
    /\ ExtFresh
    /\ HandleOff

SpeakNext ==
    \/ PbNoTts \/ PbAcquire \/ PbRelease
    \/ CoreSpeakCall \/ CoreSpeakReturn
    \/ StNoKey \/ SpeakText

SpecSpeak == SpeakInit /\ [][SpeakNext]_vars

\* speak_text called again and again with a speed of the caller's choice
SpeedInit ==
    /\ cpc = "idle"
    /\ CaptureFresh
    /\ script = "loop"
    /\ lock = "free"
    /\ ppc = "idle"
    /\ lpc = "off"
    /\ tts_available = TRUE
    /\ LoopFresh
    /\ CoreFresh
    /\ variant = "main"
    /\ caller = "direct"
    /\ spc = "idle"
    /\ ObsFresh
    /\ SpeakFresh
    /\ ExtFresh
    /\ HandleOff

SpeedChange == StTempoOk \/ StTempoFail \/ StTempoSkip \/ StTempoRaise

SpeedNext == DirectCall \/ DirectReturn \/ SpeakText \/ SpeedChange

SpecSpeed == SpeedInit /\ [][SpeedNext]_vars

\* a turn of either program: listen_loop, or AppCore.handle_audio_bytes called again
\* and again
CoreInit ==
    /\ cpc = "idle"
    /\ CaptureFresh
    /\ script = "loop"
    /\ lock = "free"
    /\ ppc = "off"
    /\ lpc = "off"
    /\ tts_available = TRUE
    /\ LoopFresh
    /\ CoreFresh
    /\ variant = "main"
    /\ caller = "AppCore.speak"
    /\ spc = "idle"
    /\ ObsFresh
    /\ SpeakFresh
    /\ ExtFresh
    /\ hpc = "idle"
    /\ calls = 0
    /\ return_audio = FALSE
    /\ core_text = NoneText
    /\ core_result = NoResult
    /\ tts_calls = 0

HandleAudioBytes ==
    \/ HabCall \/ HabNotUnderstood \/ HabTranscribed
    \/ HabRespondOk \/ HabRespondFail \/ HabTts

TurnInit == LoopInit \/ CoreInit

TurnNext == LoopNext \/ HandleAudioBytes

SpecTurn == TurnInit /\ [][TurnNext]_vars

\* the two append_history side by side, with every bound from 0 to MaxKeep
KeepInit ==
    /\ cpc = "idle"
    /\ CaptureFresh
    /\ script = "loop"
    /\ lock = "free"
    /\ ppc = "off"
    /\ lpc = "keep"
    /\ tts_available = TRUE
    /\ LoopFresh
    /\ core_history = <<>>
    /\ core_keep \in 0..MaxKeep
    /\ core_appended = <<>>
    /\ variant = "main"
    /\ caller = "speak_and_block"
    /\ spc = "atomic"
    /\ ObsFresh
    /\ SpeakFresh
    /\ ExtFresh
    /\ HandleOff

KeepNext == KeepAppend

SpecKeep == KeepInit /\ [][KeepNext]_vars

\* ------------------------------------------------------------------ properties
\* the sliding window as it stands once the frame of this step has been pushed
WindowAfterPush == DequeAppend(ring_buffer, [f |-> frame', v |-> IsSpeech(frame')])

CountTrue(h, lo, hi) == Cardinality({j \in lo..hi : h[j]})

\* every full window of RING_MAXLEN consecutive frames has a voiced fraction <= 0.6
AllFullWindowsLow(h) ==
    \A i \in RING_MAXLEN..Len(h) :
        CountTrue(h, i - RING_MAXLEN + 1, i) * RATIO_DEN <= RATIO_NUM * RING_MAXLEN

OnlyVoiced(h) == \A i \in 1..Len(h) : h[i]

RECURSIVE TrailingUnvoiced(_)
TrailingUnvoiced(h) ==
    IF h = <<>> \/ h[Len(h)] THEN 0 ELSE 1 + TrailingUnvoiced(SubSeq(h, 1, Len(h) - 1))

\* the frames numbered lo..hi carry their numbers in ascending order
ConsecutiveIds(ids, last) == \A i \in 1..Len(ids) : ids[i] = last - Len(ids) + i

ScenarioPrefix(n) == [i \in 1..n |-> ScenarioVoiced(i)]

\* C1: while playback holds is_playing_lock, no step of the capture thread changes
\* ring_buffer, speech_frames or triggered, whatever the interleaving.
C1_BarrierBlocksSegmenter ==
    [][lock = "playback" => UNCHANGED <<ring_buffer, speech_frames, triggered>>]_vars

\* C3: as long as every full 10-frame window of the frames fed has a voiced fraction
\* <= 0.6 (sequences shorter than 10 frames have no full window), the segmenter is
\* not triggered and speech_frames is empty.
C3_LowWindowsStayIdle ==
    AllFullWindowsLow(heard) => (~triggered /\ speech_frames = <<>>)

\* C4: the segmenter leaves Idle only on a window of exactly 10 frames with more than
\* 60% voiced, and ends by silence only on a window of exactly 10 frames with more
\* than 60% unvoiced.
C4_TransitionsNeedFullWindow ==
    [][ /\ (~triggered /\ triggered') =>
              /\ Len(WindowAfterPush) = RING_MAXLEN
              /\ NumVoiced(WindowAfterPush) * RATIO_DEN > RATIO_NUM * Len(WindowAfterPush)
        /\ (exit_by = "none" /\ exit_by' = "break") =>
              /\ Len(WindowAfterPush) = RING_MAXLEN
              /\ NumUnvoiced(WindowAfterPush) * RATIO_DEN > RATIO_NUM * Len(WindowAfterPush)
      ]_vars

\* C5: on an all-voiced input the segmenter triggers once (it is triggered from the
\* 10th frame on at the latest, never goes back to Idle and never back-fills again),
\* and right after the transition speech_frames is exactly the window's frames in
\* temporal order and the window is empty.
C5_VoicedRunTriggersOnce ==
    [][ OnlyVoiced(heard') =>
          /\ triggered => triggered'
          /\ Len(heard') >= RING_MAXLEN => triggered'
          /\ (~triggered /\ triggered') =>
                /\ speech_frames' = [i \in 1..Len(WindowAfterPush) |-> WindowAfterPush[i].f]
                /\ ConsecutiveIds([i \in 1..Len(speech_frames') |-> speech_frames'[i].id], fed')
                /\ ring_buffer' = <<>>
          /\ (triggered /\ fed' # fed) => speech_frames' = Append(speech_frames, frame')
      ]_vars

C5_Witness ==
    /\ OnlyVoiced(heard)
    /\ Len(heard) > RING_MAXLEN
    /\ triggered
    /\ Len(speech_frames) = Len(heard)

\* C6: once triggered, the loop never survives a run of 10 unvoiced frames; every
\* frame fed while triggered, the ending one included, is appended; the loop ended
\* by silence returns an utterance holding at least the frames speech_frames held
\* when the silent run began.
C6_SilenceEndsUtterance ==
    [][ /\ (triggered' /\ exit_by' = "none") => TrailingUnvoiced(heard') < RING_MAXLEN
        /\ (triggered /\ fed' # fed) => speech_frames' = Append(speech_frames, frame')
        /\ exit_by' = "break" =>
              /\ Len(speech_frames') >= sil_mark'
              /\ speech_frames'[Len(speech_frames')].id = fed'
        /\ (cpc' = "done" /\ exit_by' = "break") =>
              /\ result'.kind = "audio"
              /\ Len(result'.ids) = Len(speech_frames')
              /\ Len(result'.ids) >= sil_mark'
      ]_vars

C6_Witness ==
    /\ cpc = "done"
    /\ exit_by = "break"
    /\ OverThreshold(TrailingUnvoiced(heard))
    /\ result.kind = "audio"
    /\ Len(result.ids) > sil_mark

\* C7 as claimed: 10 silent frames leave Idle with an empty buffer, the next 10
\* voiced frames leave Triggered with 10 frames buffered, the next silent frames
\* end in Done(success) with 20 frames buffered.
C7_ScenarioAsClaimed ==
    /\ (Len(heard) = 10 /\ heard = ScenarioPrefix(10)) =>
          (~triggered /\ speech_frames = <<>>)
    /\ (Len(heard) = 20 /\ heard = ScenarioPrefix(20)) =>
          (triggered /\ exit_by # "break" /\ Len(speech_frames) = 10)
    /\ (script = "scenario" /\ exit_by = "break") => Len(speech_frames) = 20

\* C7 amended: the transition happens on the 7th voiced frame with the 10 window
\* frames buffered; after the 10 voiced frames 13 frames are buffered; the 7th silent
\* frame ends the utterance with 20 frames, and no further frame is taken.
C7_Scenario ==
    LET IsPrefix(n) == Len(heard) = n /\ heard = ScenarioPrefix(n)
    IN  /\ IsPrefix(10) => (~triggered /\ speech_frames = <<>>)
        /\ \A n \in 10..16 : IsPrefix(n) => ~triggered
        /\ IsPrefix(17) => (triggered /\ Len(speech_frames) = 10 /\ ring_buffer = <<>>)
        /\ IsPrefix(20) => (triggered /\ exit_by # "break" /\ Len(speech_frames) = 13)
        /\ \A n \in 17..26 : IsPrefix(n) => exit_by # "break"
        /\ IsPrefix(27) => (exit_by = "break" /\ Len(speech_frames) = 20)
        /\ (script = "scenario" /\ exit_by = "break") =>
              (IsPrefix(27) /\ Len(speech_frames) = 20)
        /\ (script = "scenario" /\ cpc = "done" /\ exit_by = "break") =>
              (result.kind = "audio" /\ Len(result.ids) = 20)

C7_Witness ==
    /\ script = "scenario"
    /\ heard = ScenarioPrefix(27)
    /\ cpc = "done"
    /\ result.kind = "audio"

\* C8: when the deadline ends the loop, an Idle segmenter makes record_with_vad
\* return None (speech_frames empty), a Triggered one makes it return every frame
\* accumulated so far, however many.
C8_DeadlineResult ==
    (cpc = "done" /\ exit_by = "deadline") =>
        IF ~triggered
        THEN result = None /\ speech_frames = <<>>
        ELSE /\ result.kind = "audio"
             /\ Len(result.ids) = Len(speech_frames)
             /\ Len(result.ids) >= 1
             /\ ConsecutiveIds(result.ids, fed)
             /\ result.nbytes = Len(speech_frames) * BYTES_PER_FRAME

C8_Witness ==
    /\ cpc = "done"
    /\ exit_by = "deadline"
    /\ triggered
    /\ Len(result.ids) < RING_MAXLEN

\* C2: if every get_deepseek_response call fails while every capture and every
\* transcription succeeds, the loop has exited once the 3rd call has failed, and no
\* 4th call is made.
C2_ThreeChatFailuresExit ==
    (all_heard_ok /\ chat_failed = chat_calls) =>
        /\ chat_calls <= max_consecutive_errors
        /\ chat_calls = max_consecutive_errors => lpc = "exited"

\* C9: after n append_history calls the history is the last min(n, 6) entries
\* appended, oldest first (detect_voice.append_history and AppCore.append_history
\* with history_keep = 6).
LastEntries(log, k) ==
    LET m == IF Len(log) < k THEN Len(log) ELSE k
    IN  [i \in 1..m |-> log[(Len(log) - m) + i]]

C9_HistoryFifo ==
    /\ Len(conversation_history) = (IF Len(appended) < 6 THEN Len(appended) ELSE 6)
    /\ conversation_history = LastEntries(appended, 6)
    /\ Len(core_history) = (IF Len(core_appended) < 6 THEN Len(core_appended) ELSE 6)
    /\ core_keep = 6 => core_history = LastEntries(core_appended, 6)

C9_Witness ==
    /\ Len(appended) = 8
    /\ Len(conversation_history) = 6
    /\ conversation_history[1].content = 3
    /\ conversation_history[6].content = 8
    /\ Len(core_appended) = 8
    /\ core_history = LastEntries(core_appended, 6)

\* C10: the history changes only in a step in which the chat call succeeds, which
\* appends the user turn and then the assistant turn; a failed chat call leaves the
\* history as it was before the turn.
C10_HistoryOnlyOnSuccess ==
    [][ /\ conversation_history' # conversation_history =>
              (chat_calls' = chat_calls + 1 /\ chat_failed' = chat_failed)
        /\ chat_failed' # chat_failed => conversation_history' = conversation_history
        /\ (chat_calls' # chat_calls /\ chat_failed' = chat_failed) =>
              LET h == conversation_history'
              IN  /\ Len(h) >= 2
                  /\ h[Len(h) - 1] = Entry("user", text)
                  /\ h[Len(h)] = Entry("assistant", response')
      ]_vars

\* C11: the step in which listen_loop takes the outcome of a capture that could not
\* open the device adds one to consecutive_errors and leaves the loop when that makes
\* 3; the step that takes a no-speech outcome goes back to the top and leaves the
\* counter as it is.
C11_OpenFailureCounted ==
    [][ (lpc = "capture" /\ lpc' # "capture") =>
          IF exit_by = "open_failed"
          THEN /\ consecutive_errors' = consecutive_errors + 1
               /\ lpc' = (IF consecutive_errors' >= max_consecutive_errors
                          THEN "exited" ELSE "top")
          ELSE result = None => (lpc' = "top" /\ consecutive_errors' = consecutive_errors)
      ]_vars

\* C12: consecutive_errors stays within 0..3; the step that takes it to 3 leaves the
\* loop, and nothing happens after the loop is left; the step of a successful chat
\* call leaves it at 0, and it is 0 all through the Speak step that follows.
C12_BreakerBounded ==
    [][ /\ consecutive_errors \in 0..max_consecutive_errors
        /\ consecutive_errors' \in 0..max_consecutive_errors
        /\ consecutive_errors' >= max_consecutive_errors => lpc' = "exited"
        /\ lpc = "exited" => UNCHANGED vars
        /\ (chat_calls' # chat_calls /\ chat_failed' = chat_failed) => consecutive_errors' = 0
        /\ lpc' \in {"speak", "speaking"} => consecutive_errors' = 0
      ]_vars

C12_Witness ==
    /\ lpc = "exited"
    /\ consecutive_errors = max_consecutive_errors
    /\ chat_calls > chat_failed
    /\ cpc = "done"

\* the barrier of the playing path, and what the play operation returns
Barrier == IF caller = "speak_and_block" THEN lock ELSE play_lock
PlayResult ==
    IF caller = "speak_and_block" THEN SpeakAndBlockResult(spk_ret) ELSE CoreSpeakResult(spk_ret)

\* C13: every stream.write of the playing path (speak_and_block or AppCore.speak)
\* happens with the path's barrier held; when the play operation ends the barrier is
\* free, and a play that did not succeed does not report success.
C13_WritesUnderBarrier ==
    [][ /\ writes' = writes + 1 => (Barrier = "playback" /\ Barrier' = "playback")
        /\ (ppc = "speaking" /\ ppc' # "speaking") =>
              /\ Barrier' = "free"
              /\ spk_ret # "True" => PlayResult # "True"
      ]_vars

\* C14: record_with_vad never takes, releases or waits for is_playing_lock: at the
\* top of the loop the deadline exit is open whatever the lock; an iteration that
\* finds the lock held leaves ring_buffer, triggered, speech_frames and the frames
\* fed as they are; a call that saw the lock held throughout has fed nothing; a call
\* that ends at the deadline with nothing fed returns None with speech_frames empty.
C14_NeverWaitsOnBarrier ==
    [][ /\ lock' # lock => UNCHANGED capvars
        /\ cpc = "loop" => ENABLED RvDeadline
        /\ (cpc = "loop" /\ lock # "free" /\ cpc' = "loop") =>
              UNCHANGED <<ring_buffer, triggered, speech_frames, fed, heard, frame>>
        /\ held_all' =>
              (fed' = 0 /\ ring_buffer' = <<>> /\ ~triggered' /\ speech_frames' = <<>>)
        /\ (cpc' = "done" /\ exit_by' = "deadline" /\ fed' = 0) =>
              (result' = None /\ speech_frames' = <<>>)
      ]_vars

C14_Witness ==
    /\ cpc = "done"
    /\ exit_by = "deadline"
    /\ held_all
    /\ held_drops >= 2
    /\ lock = "playback"
    /\ result = None

\* C15: when record_with_vad has ended, in either file and however it ended, the
\* PyAudio instance it created is terminated and no stream it opened is open.
C15_HandlesReleased ==
    cpc = "done" => (pa # "live" /\ stream # "open")

\* C16: vad.is_speech is only ever called on a frame of BYTES_PER_FRAME bytes, and
\* only such frames reach the segmenter; an iteration that reads and neither feeds
\* the frame nor leaves by an exception (read error, wrong length, classifier error)
\* goes back to the top of the loop with ring_buffer, triggered and speech_frames
\* as they were.
C16_BadFramesSkipped ==
    [][ /\ vad_called' => frame'.len = BYTES_PER_FRAME
        /\ fed' = fed + 1 => (frame'.len = BYTES_PER_FRAME /\ vad_called')
        /\ \A i \in 1..Len(speech_frames') : speech_frames'[i].len = BYTES_PER_FRAME
        /\ (cpc = "read" /\ lock' = lock /\ fed' = fed /\ exit_by' = exit_by) =>
              /\ cpc' = "loop"
              /\ UNCHANGED <<ring_buffer, triggered, speech_frames, stream, pa, result>>
      ]_vars

C16_Witness ==
    /\ cpc = "loop"
    /\ triggered
    /\ speech_frames # <<>>
    /\ frame.id = fed + 1
    /\ frame.len # BYTES_PER_FRAME
    /\ ~vad_called

\* C17: a transcription that yields nothing (unintelligible audio, None or the empty
\* string) ends the turn with the could-not-understand message: listen_loop goes
\* back to the top, handle_audio_bytes returns text None and audio_bytes None, and in
\* that turn no chat call and no synthesis call is made and the history is unchanged.
C17_UnintelligibleEndsTurn ==
    [][ /\ (lpc = "transcribe" /\ lpc' = "respond") => text' # EmptyText
        /\ (lpc = "transcribe" /\ notice' = "could_not_understand") =>
              /\ lpc' = "top"
              /\ UNCHANGED <<chat_calls, conversation_history, pbvars, spkvars>>
        /\ (hpc = "transcribe" /\ hpc' # "transcribe") =>
              IF core_text' \in {NoneText, EmptyText}
              THEN /\ hpc' = "idle"
                   /\ core_result' = [NoResult EXCEPT !.response = "could_not_understand"]
                   /\ UNCHANGED <<chat_calls, tts_calls, core_history>>
              ELSE hpc' = "respond"
      ]_vars

\* C18: whatever happens in the Speak step (speak_text returns False or raises), the
\* loop is not left and consecutive_errors and the history are not touched: the
\* counter stays 0, the history still ends with the user and assistant entries of the
\* turn, and the loop goes back to the top with the lock free.
C18_SpeakFailureSwallowed ==
    [][ (lpc = "speak" \/ lpc = "speaking") =>
          /\ lpc' \in {"speak", "speaking", "top"}
          /\ UNCHANGED <<consecutive_errors, conversation_history, appended>>
          /\ consecutive_errors = 0
          /\ lpc' = "top" => lock' = "free"
          /\ Len(conversation_history) >= 2
          /\ conversation_history[Len(conversation_history) - 1] = Entry("user", text)
          /\ conversation_history[Len(conversation_history)] = Entry("assistant", response)
      ]_vars

C18_Witness ==
    /\ lpc = "top"
    /\ spk_ret \in {"False", "raised"}
    /\ turns < MaxTurns
    /\ consecutive_errors = 0
    /\ Len(conversation_history) >= 2
    /\ lock = "free"

\* C19: a step of a turn starts only when the step before it has succeeded:
\* transcription after a capture that returned audio, the chat call after a
\* transcription, synthesis and playback after a chat call that succeeded, and the
\* next capture only when no playback is under way (listen_loop and
\* AppCore.handle_audio_bytes).
C19_StepsInOrder ==
    [][ /\ (lpc # "transcribe" /\ lpc' = "transcribe") =>
              (lpc = "capture" /\ result.kind = "audio")
        /\ (lpc # "respond" /\ lpc' = "respond") => lpc = "transcribe"
        /\ (lpc # "speak" /\ lpc' = "speak") =>
              (lpc = "respond" /\ chat_calls' = chat_calls + 1 /\ chat_failed' = chat_failed)
        /\ (lpc # "capture" /\ lpc' = "capture") =>
              (lpc = "top" /\ ppc = "off" /\ lock = "free" /\ spc = "idle")
        /\ (hpc # "transcribe" /\ hpc' = "transcribe") => hpc = "idle"
        /\ (hpc # "respond" /\ hpc' = "respond") => hpc = "transcribe"
        /\ (hpc # "tts" /\ hpc' = "tts") =>
              (hpc = "respond" /\ chat_calls' = chat_calls + 1 /\ chat_failed' = chat_failed)
      ]_vars

\* C20: no request to the synthesis service is in flight while a playback barrier is
\* held: speak_text has the encoded audio before the barrier is acquired.
C20_NoRequestUnderBarrier ==
    (lock = "playback" \/ play_lock = "playback") => spc \notin {"entry", "request"}

\* C27: a request to the chat service is the system prompt, then the last 6 entries
\* of the history as it stood before the turn (entries of earlier turns only), then
\* the text of the turn once, as the final message: at most 8 messages, from
\* listen_loop and from AppCore.get_response alike.
C27_UserTextOnce ==
    [][ chat_calls' # chat_calls =>
          LET before == IF hpc = "off" THEN conversation_history ELSE core_history
              t == IF hpc = "off" THEN text ELSE core_text
              n == Len(request')
          IN  /\ n >= 2
              /\ n <= DS_HISTORY_KEEP + 2
              /\ request'[1] = Message("system", FALSE, SystemPrompt)
              /\ request'[n] = Message("user", TRUE, t)
              /\ SubSeq(request', 2, n - 1) = HistoryTail(before)
      ]_vars

\* C25: called with the same bound K >= 0 and the same appends, the two
\* append_history leave the same history, and it never holds more than K entries.
C25_TrimsAgree ==
    /\ conversation_history = core_history
    /\ Len(core_history) <= core_keep
    /\ Len(conversation_history) <= core_keep

\* C30: when speak_text is called with speed != 1.0 and ffmpeg ends with a non-zero
\* return code, the bytes handed to _play_wav_bytes are the WAV bytes speak_text had
\* before the speed change.
C30_TempoFailureFallsBack ==
    (spc = "play" /\ tempo = "failed") => wav_bytes = "original"

\* C21: once a user interrupt has ended listen_loop, is_playing_lock is free, the
\* input stream is not open and no output stream of the playback is open.
C21_InterruptShutsDown ==
    (lpc = "exited" /\ interrupted) =>
        (lock = "free" /\ stream # "open" /\ out_stream # "open")

\* C22: listen_loop is left only by the step that takes consecutive_errors to 3 or
\* by a user interrupt; an exception of record_with_vad or of the chat call adds one
\* to consecutive_errors, a transcription that raises either adds one or goes back to
\* the top with the counter as it is, and a failed playback goes back to the top with
\* the counter as it is.
C22_OnlyTwoWaysOut ==
    [][ /\ (lpc # "exited" /\ lpc' = "exited") =>
              \/ /\ interrupted' = interrupted
                 /\ consecutive_errors' = consecutive_errors + 1
                 /\ consecutive_errors' >= max_consecutive_errors
              \/ (interrupted' /\ ~interrupted)
        /\ interrupted' # interrupted => lpc' = "exited"
        /\ (lpc = "capture" /\ cpc = "done" /\ result.kind = "raised") =>
              consecutive_errors' = consecutive_errors + 1
        /\ (chat_failed' # chat_failed /\ ~interrupted') =>
              consecutive_errors' = consecutive_errors + 1
        /\ (lpc = "transcribe" /\ lpc' # "respond" /\ ~interrupted') =>
              \/ (lpc' = "top" /\ consecutive_errors' = consecutive_errors)
              \/ consecutive_errors' = consecutive_errors + 1
        /\ (lpc = "speaking" /\ ppc = "returned" /\ spk_ret # "interrupt") =>
              (lpc' = "top" /\ consecutive_errors' = consecutive_errors)
      ]_vars

C22_Witness ==
    /\ lpc = "exited"
    /\ ~interrupted
    /\ consecutive_errors = max_consecutive_errors
    /\ result.kind = "raised"
    /\ chat_failed >= 1

\* C24: a chat call that fails (network error, error status, or a body without
\* choices[0].message.content) adds one to consecutive_errors and appends no
\* assistant entry to the history.
C24_ReplyFailuresCounted ==
    [][ (chat_calls' # chat_calls /\ (chat_failed' # chat_failed \/ response' = MalformedReply)) =>
          /\ consecutive_errors' = consecutive_errors + 1
          /\ \A i \in (Len(appended) + 1)..Len(appended') : appended'[i].role # "assistant"
      ]_vars

\* C28: in listen_loop, while record_with_vad runs is_playing_lock is free, so the
\* read-and-discard branch cannot be taken and no frame is dropped; the lock is held
\* only inside the Speak step, after the capture of the turn has ended.
C28_CaptureNeverSeesLock ==
    /\ lpc = "capture" =>
          (lock = "free" /\ ppc = "off" /\ ~held_all /\ held_drops = 0 /\ ~ENABLED RvDiscard)
    /\ lock = "playback" => (lpc = "speaking" /\ cpc = "done")

C28_Witness ==
    /\ lpc = "capture"
    /\ cpc = "read"
    /\ fed >= 1
    /\ turns >= 2
    /\ tts_available
    /\ chat_calls >= 1
    /\ chat_failed = 0
    /\ consecutive_errors = 0

\* C29: a turn that ends because record_with_vad returned None, or because the audio
\* was unintelligible, goes back to the top with consecutive_errors as it was; a
\* service error that follows adds one to that value, and leaves the loop at 3.
C29_BenignLeavesCounter ==
    [][ /\ (lpc = "capture" /\ cpc = "done" /\ result = None) =>
              (lpc' = "top" /\ consecutive_errors' = consecutive_errors)
        /\ (lpc = "transcribe" /\ notice' = "could_not_understand") =>
              (lpc' = "top" /\ consecutive_errors' = consecutive_errors)
        /\ (lpc = "transcribe" /\ lpc' \in {"top", "exited"} /\ notice' = notice) =>
              /\ consecutive_errors' = consecutive_errors + 1
              /\ lpc' = "exited" <=> consecutive_errors' >= max_consecutive_errors
      ]_vars

C29_Witness ==
    /\ lpc = "top"
    /\ notice = "could_not_understand"
    /\ consecutive_errors = max_consecutive_errors - 1
    /\ chat_calls = 0
    /\ turns < MaxTurns

\* the segmenter of record_with_vad as one value
Segmenter ==
    [rb |-> ring_buffer, trig |-> triggered, sf |-> speech_frames, done |-> exit_by = "break"]

C26_UtteranceContiguous ==
    [][ /\ (~triggered /\ triggered') =>
              /\ speech_frames' = [i \in 1..Len(WindowAfterPush) |-> WindowAfterPush[i].f]
              /\ Len(speech_frames') <= RING_MAXLEN
              /\ OverThreshold(Len(speech_frames'))
        /\ (triggered /\ fed' # fed) =>
              (speech_frames' = Append(speech_frames, frame') /\ frame'.id = fed')
        /\ (triggered /\ fed' = fed) => speech_frames' = speech_frames
        /\ result'.kind = "audio" =>
              /\ result'.ids = [i \in 1..Len(speech_frames') |-> speech_frames'[i].id]
              /\ ConsecutiveIds(result'.ids, fed')
              /\ result'.ids[1] >= 1
              /\ OverThreshold(Len(result'.ids))
              /\ result'.nbytes = Len(result'.ids) * BYTES_PER_FRAME
      ]_vars

C26_Witness ==
    /\ cpc = "done"
    /\ result.kind = "audio"
    /\ result.ids[1] > 1
    /\ Len(result.ids) > RING_MAXLEN
    /\ result.ids[Len(result.ids)] = fed

====
